---- MODULE Spec2Model ----
(***************************************************************************)
(* A model of two parts of the hier2hier repository:                       *)
(*   - HierarchyPropagator (hier2hier/models/hierarchyPropagator.py): the  *)
(*     constructor and forward(), one action per call entry, per round of  *)
(*     the propagation loop and per return;                                *)
(*   - the run-folder bookkeeping of apps/config.py (getRunFolder).        *)
(* Tensors are sequences of rows with a width; a row is a symbolic term    *)
(* that records the operations applied to it, so two rows are equal only   *)
(* when the code computed them the same way from the same inputs.          *)
(***************************************************************************)
EXTENDS Integers, Sequences, FiniteSets, TLC

\* ------------------------------------------------------------- bounds
MaxNodes == 4
MaxDepth == 2
MaxCalls == 2
MaxRunIndex == 2
MaxCheckpoints == 2
MaxRun == 1
InfoLen == 2

VARIABLES
    pc,          \* "new" | "ctorRaised" | "idle" | "loop" | "returned" | "raised"
    cfg,         \* the constructor's hyperparameters (self.*)
    training,    \* nn.Module.training: TRUE after construction, FALSE after eval()
    bnTracked,   \* batchNormPropagatedInfo.num_batches_tracked (running statistics version)
    calls,       \* forward calls begun on this instance
    inp,         \* the arguments of the current forward call
    node,        \* propagatedNodeInfoByNdfo
    i,           \* the loop variable of "for i in range(stack_depth)"
    err,         \* the exception raised, or "none"
    roundIn,     \* propagatedNodeInfoByNdfo as it stood when the last round began
    step,        \* the intermediate tensors of the last round
    prevOut,     \* the tensor returned by the previous call when it had these same arguments
    rng,         \* the state of torch's random generator: the masks drawn so far
    folders,     \* the directories under <training_dir>/runFolders/
    rf,          \* what the last getRunFolder call returned or raised
    chks,        \* the Chk<a>.<b> folders inside the run folders
    app          \* the appConfig the last loadConfig call returned, or what it raised

vars == <<pc, cfg, training, bnTracked, calls, inp, node, i, err, roundIn, step,
          prevOut, rng, folders, rf, chks, app>>
propVars == <<pc, cfg, training, bnTracked, calls, inp, node, i, err, roundIn, step,
              prevOut, rng>>
runVars == <<folders, rf, chks, app>>
cfgVars == <<chks, app>>

\* ------------------------------------------------------------- terms and tensors
\* A row value: the operation that produced it, a number (leaf id, divisor,
\* random draw, statistics version) and the rows it was computed from.
T(op, n, args) == [op |-> op, n |-> n, args |-> args]
Leaf(j) == T("x", j, <<>>)
ZeroRow == T("zero", 0, <<>>)

\* A 2-D tensor of shape (Len(r), w).
Tn(w, r) == [w |-> w, r |-> r]
Rows(t) == Len(t.r)
\* torch.tensor([]): no rows.
EmptyTensor == Tn(0, <<>>)

Min(a, b) == IF a < b THEN a ELSE b
Max(a, b) == IF a > b THEN a ELSE b

\* t[a:b] on rows, 0-based half-open, clamped as Python slices are.
Slice(t, a, b) ==
    LET lo == Min(Max(a, 0), Rows(t))
        hi == Min(Max(b, lo), Rows(t))
    IN Tn(t.w, [j \in 1..(hi - lo) |-> t.r[lo + j]])

\* Advanced indexing t[sel, ...]: ranks are 0-based, a negative rank counts
\* from the end, anything outside -N..N-1 raises IndexError.
IndexOk(t, sel) == \A j \in 1..Len(sel) : sel[j] >= -Rows(t) /\ sel[j] < Rows(t)
RowAt(t, rank) == t.r[IF rank >= 0 THEN rank + 1 ELSE Rows(t) + rank + 1]
Gather(t, sel) == Tn(t.w, [j \in 1..Len(sel) |-> RowAt(t, sel[j])])

\* nn.Linear(W, W) applied row-wise.
Linear(name, W, t) == Tn(W, [j \in 1..Rows(t) |-> T(name, 0, <<t.r[j]>>)])

\* torch.nn.GRUCell(W, W)(input, hidden), row-wise; the caller has checked
\* that input and hidden have the same number of rows.
GRUCell(name, W, x, h) == Tn(W, [j \in 1..Rows(h) |-> T(name, 0, <<x.r[j], h.r[j]>>)])

\* nn.ZeroPad2d((0, 0, 0, deficit)): deficit zero rows appended.
ZeroPadAbove(t, deficit) == Tn(t.w, [j \in 1..deficit |-> ZeroRow] \o t.r)
ZeroPad(t, deficit) == Tn(t.w, t.r \o [j \in 1..deficit |-> ZeroRow])

\* Row counts m and f broadcast together (dimension 0) when they are equal or
\* one of them is 1; BroadcastRows is the resulting row count.
Broadcastable(m, f) == m = f \/ m = 1 \/ f = 1
BroadcastRows(m, f) == IF m = 1 THEN f ELSE m

\* a + b, elementwise with broadcasting over rows.
AddRows(a, b) ==
    Tn(a.w, [j \in 1..BroadcastRows(Rows(a), Rows(b)) |->
                T("add", 0, <<a.r[IF Rows(a) = 1 THEN 1 ELSE j],
                              b.r[IF Rows(b) = 1 THEN 1 ELSE j]>>)])

\* acc / fanout.unsqueeze(-1): row-wise division with broadcasting over rows.
Divide(acc, fanout) ==
    Tn(acc.w, [j \in 1..BroadcastRows(Rows(acc), Len(fanout)) |->
                T("div", fanout[IF Len(fanout) = 1 THEN 1 ELSE j],
                  <<acc.r[IF Rows(acc) = 1 THEN 1 ELSE j]>>)])

\* torch.cat([a, b]) along dimension 0.
CatDropsSecond(a, b) == a
Cat(a, b) == Tn(a.w, a.r \o b.r)

\* nn.Dropout(p): the identity in eval mode or with p = 0; otherwise a random
\* mask drawn from the generator in state g, which the draw advances.
DropoutIgnoresRate(p, train) == train
DropoutActive(p, train) == train /\ p > 0
Dropout(t, p, train, g) ==
    IF DropoutActive(p, train)
    THEN Tn(t.w, [j \in 1..Rows(t) |-> T("dropout", g, <<t.r[j]>>)])
    ELSE t
RngAfterDropout(p, train, g) == IF DropoutActive(p, train) THEN g + 1 ELSE g

\* nn.BatchNorm1d: in training mode every row is normalised with the statistics
\* of the whole batch; in eval mode with the running statistics.
BatchNorm(t, train, tracked) ==
    IF train
    THEN Tn(t.w, [j \in 1..Rows(t) |-> T("batchNormTrain", 0, <<t.r[j]>> \o t.r)])
    ELSE Tn(t.w, [j \in 1..Rows(t) |-> T("batchNormEval", tracked, <<t.r[j]>>)])

\* ------------------------------------------------------------- one round of forward
\* assert(propagatedCurChildInfoByNdfo.shape[0] >= propagatedChildrenInfoByNdfo.shape[0])
AssertNoShrinkFlipped(curRows, accRows) == curRows <= accRows
AssertNoShrink(curRows, accRows) == curRows >= accRows

\* The loop "for childSelectorByNdfo in childSelectorByNdfoList", from its k-th
\* element on, with acc the running propagatedChildrenInfoByNdfo.
RECURSIVE AccumulateChildren(_, _, _, _, _)
AccumulateChildren(W, t, list, k, acc) ==
    IF k > Len(list) THEN [err |-> "none", acc |-> acc]
    ELSE IF ~IndexOk(t, list[k]) THEN [err |-> "IndexError", acc |-> acc]
    ELSE IF t.w # W THEN [err |-> "RuntimeError", acc |-> acc]
    ELSE LET cur == Linear("transformChildrenInfo", W, Gather(t, list[k]))
         IN IF Rows(acc) = 0
            THEN AccumulateChildren(W, t, list, k + 1, cur)
            ELSE IF ~AssertNoShrink(Rows(cur), Rows(acc))
            THEN [err |-> "AssertionError", acc |-> acc]
            ELSE LET padded == IF Rows(cur) > Rows(acc)
                               THEN ZeroPad(acc, Rows(cur) - Rows(acc))
                               ELSE acc
                 IN IF ~Broadcastable(Rows(padded), Rows(cur))
                    THEN [err |-> "RuntimeError", acc |-> acc]
                    ELSE AccumulateChildren(W, t, list, k + 1, AddRows(padded, cur))

\* The intermediate tensors of a round; NoStep before any round has run.
NoStep == [rawChildrenInfo |-> EmptyTensor, childrenInfo |-> EmptyTensor,
           parentMerged |-> EmptyTensor, deficitStart |-> 0,
           divided |-> FALSE, childrenMerged |-> FALSE, out |-> EmptyTensor]
RoundFails(e) == [err |-> e, step |-> NoStep]

\* "if propagatedChildrenInfoByNdfo.shape[0]:"
HasChildrenInfoAlways(t) == TRUE
HasChildrenInfo(t) == Rows(t) > 0

\* "Keep original info, when no children": propagatedNodeInfoByNdfo[deficitStart:]
NoChildRowsOffByOne(t, deficitStart) == Slice(t, deficitStart + 1, Rows(t))
NoChildRows(t, deficitStart) == Slice(t, deficitStart, Rows(t))

\* The body of "for i in range(self.node_info_propagator_stack_depth)" up to, not
\* including, the output dropout: c is self's configuration, a the call's
\* arguments, t the node tensor at the start of the round.
Round(c, a, t) ==
    LET W == c.propagated_info_len
    IN  IF ~IndexOk(t, a.parentSelectorByNdfo) THEN RoundFails("IndexError")
        ELSE IF t.w # W THEN RoundFails("RuntimeError")
        ELSE
        LET parentInfo == Linear("transformParentInfo", W, Gather(t, a.parentSelectorByNdfo))
            loop == AccumulateChildren(W, t, a.childSelectorByNdfoList, 1, EmptyTensor)
        IN  IF loop.err # "none" THEN RoundFails(loop.err)
            ELSE IF Rows(parentInfo) # Rows(t) THEN RoundFails("RuntimeError")
            ELSE
            LET parentMerged == GRUCell("overlayParentInfo", W, parentInfo, t)
                raw == loop.acc
            IN  IF HasChildrenInfo(raw)
                   /\ ~Broadcastable(Rows(raw), Len(a.decreasingFanoutsFactor))
                THEN RoundFails("RuntimeError")
                ELSE
                LET acc == IF HasChildrenInfo(raw)
                           THEN Divide(raw, a.decreasingFanoutsFactor)
                           ELSE raw
                    deficitStart == Rows(acc)
                    finalDeficit == Rows(parentMerged) - deficitStart
                    whenNoChild == NoChildRows(parentMerged, deficitStart)
                    prefix == Slice(parentMerged, 0, deficitStart)
                IN  IF HasChildrenInfo(acc) /\ Rows(acc) # Rows(prefix)
                    THEN RoundFails("RuntimeError")
                    ELSE
                    LET merged == IF HasChildrenInfo(acc)
                                  THEN GRUCell("overlayChildrenInfo", W, acc, prefix)
                                  ELSE prefix
                        res == IF finalDeficit # 0 THEN Cat(merged, whenNoChild) ELSE merged
                    IN  [err |-> "none",
                         step |-> [rawChildrenInfo |-> raw, childrenInfo |-> acc,
                                   parentMerged |-> parentMerged,
                                   deficitStart |-> deficitStart,
                                   divided |-> HasChildrenInfo(raw),
                                   childrenMerged |-> HasChildrenInfo(acc),
                                   out |-> res]]

\* ------------------------------------------------------------- the arguments of forward
\* A batch of trees in NDFO order is given, as in the fixture
\* treeIndex2NodeIndex2NbrIndices, by each node's parent rank: p[r + 1] is the
\* rank of the parent of the node at rank r (a root is its own parent).
RECURSIVE ReachesRoot(_, _, _)
ReachesRoot(p, r, fuel) ==
    p[r + 1] = r \/ (fuel > 0 /\ ReachesRoot(p, p[r + 1], fuel - 1))
ChildrenOf(p, r) == {c \in 0..(Len(p) - 1) : c # r /\ p[c + 1] = r}
FanoutOf(p, r) == Cardinality(ChildrenOf(p, r))
\* Trees only, and fanouts in decreasing order of rank.
IsNdfoForest(p) ==
    /\ \A r \in 0..(Len(p) - 1) : ReachesRoot(p, r, Len(p))
    /\ \A r \in 0..(Len(p) - 2) : FanoutOf(p, r) >= FanoutOf(p, r + 1)
Forests(n) == {p \in [1..n -> 0..(n - 1)] : IsNdfoForest(p)}
AllForests == UNION {Forests(n) : n \in 1..MaxNodes}

\* The k-th child (k = 0, 1, ...) of the node at rank r, children in rank order.
KthChild(p, r, k) ==
    CHOOSE c \in ChildrenOf(p, r) : Cardinality({d \in ChildrenOf(p, r) : d < c}) = k
\* The rank-k child selector: entry j is the k-th child of the node at rank j,
\* for the nodes that have more than k children (a prefix, by the NDFO order).
RankSelector(p, k) ==
    [j \in 1..Cardinality({r \in 0..(Len(p) - 1) : FanoutOf(p, r) > k}) |->
        KthChild(p, j - 1, k)]
ChildSelectorsByRank(p) == [k \in 1..FanoutOf(p, 0) |-> RankSelector(p, k - 1)]
Reversed(s) == [k \in 1..Len(s) |-> s[Len(s) + 1 - k]]
\* The number of children of every node, and of the nodes that have children.
FanoutPerNode(p) == [j \in 1..Len(p) |-> FanoutOf(p, j - 1)]
ParentCount(p) == Cardinality({r \in 0..(Len(p) - 1) : FanoutOf(p, r) > 0})
FanoutOfParents(p) == [j \in 1..ParentCount(p) |-> FanoutOf(p, j - 1)]

SetLast(s, v) == IF Len(s) = 0 THEN s ELSE [s EXCEPT ![Len(s)] = v]

ListOrders == {"rank", "reversed"}
FanoutShapes == {"perNode", "parentsOnly"}
Corruptions == {"parentOob", "parentNeg", "childOob", "childNeg", "longChild",
                "width", "noHook"}

\* The arguments of one forward call on the batch p: feature rows of width
\* InfoLen; the child selector list in increasing rank order or reversed; the
\* fanout factor with one entry per node or one per node that has children; and
\* one way of being malformed, or "none".
MakeArgs(p, order, shape, corrupt) ==
    LET n == Len(p)
        byRank == ChildSelectorsByRank(p)
        list == IF order = "rank" THEN byRank ELSE Reversed(byRank)
    IN  [propagatedNodeInfoByNdfo |->
            Tn(IF corrupt = "width" THEN InfoLen + 1 ELSE InfoLen, [j \in 1..n |-> Leaf(j)]),
         parentSelectorByNdfo |->
            IF corrupt = "parentOob" THEN SetLast(p, n)
            ELSE IF corrupt = "parentNeg" THEN SetLast(p, -1)
            ELSE p,
         childSelectorByNdfoList |->
            IF corrupt = "longChild" THEN << [j \in 1..(n + 1) |-> 0] >>
            ELSE IF corrupt = "childOob" /\ Len(list) > 0
                 THEN [list EXCEPT ![1] = SetLast(list[1], n)]
            ELSE IF corrupt = "childNeg" /\ Len(list) > 0
                 THEN [list EXCEPT ![1] = SetLast(list[1], -1)]
            ELSE list,
         decreasingFanoutsFactor |->
            IF corrupt = "longChild" THEN [j \in 1..(n + 1) |-> 1]
            ELSE IF shape = "perNode" THEN FanoutPerNode(p)
            ELSE FanoutOfParents(p),
         dataDebugHook |-> corrupt # "noHook"]

CallArgs ==
    UNION { {MakeArgs(p, o, s, "none") : o \in ListOrders, s \in FanoutShapes}
            \cup {MakeArgs(p, "reversed", "parentsOnly", c) : c \in Corruptions}
          : p \in AllForests }

NoArgs == [propagatedNodeInfoByNdfo |-> EmptyTensor, parentSelectorByNdfo |-> <<>>,
           childSelectorByNdfoList |-> <<>>, decreasingFanoutsFactor |-> <<>>,
           dataDebugHook |-> FALSE]

\* ------------------------------------------------------------- HierarchyPropagator
InfoLens == {-1, InfoLen}
StackDepths == -1..MaxDepth
DropoutPs == {0, 50}     \* percent

NoCfg == [propagated_info_len |-> 0, node_info_propagator_stack_depth |-> 0,
          disable_batch_norm |-> TRUE, input_dropout_p |-> 0, dropout_p |-> 0]

Init ==
    /\ pc = "new"
    /\ cfg = NoCfg
    /\ training = TRUE
    /\ bnTracked = 0
    /\ calls = 0
    /\ inp = NoArgs
    /\ node = EmptyTensor
    /\ i = 0
    /\ err = "none"
    /\ roundIn = EmptyTensor
    /\ step = NoStep
    /\ prevOut = EmptyTensor
    /\ rng = 0
    /\ folders = {}
    /\ rf = [kind |-> "none"]
    /\ chks = {}
    /\ app = [kind |-> "none"]

\* What __init__ does with its hyperparameters: nothing is validated here; the
\* layers built from a negative propagated_info_len cannot be allocated.
CtorAccepts(len, depth) == len >= 0

\* HierarchyPropagator.__init__
Construct ==
    /\ pc = "new"
    /\ \E len \in InfoLens, depth \in StackDepths, dbn \in BOOLEAN,
          inP \in DropoutPs, outP \in DropoutPs :
          /\ cfg' = [propagated_info_len |-> len,
                     node_info_propagator_stack_depth |-> depth,
                     disable_batch_norm |-> dbn,
                     input_dropout_p |-> inP, dropout_p |-> outP]
          /\ IF CtorAccepts(len, depth)
             THEN pc' = "idle" /\ err' = "none"
             ELSE pc' = "ctorRaised" /\ err' = "RuntimeError"
    /\ UNCHANGED <<training, bnTracked, calls, inp, node, i, roundIn, step, prevOut, rng>>
    /\ UNCHANGED runVars

\* h2hModel.eval(): the module leaves training mode.
Eval ==
    /\ pc \in {"idle", "returned", "raised"}
    /\ training
    /\ training' = FALSE
    /\ UNCHANGED <<pc, cfg, bnTracked, calls, inp, node, i, err, roundIn, step, prevOut, rng>>
    /\ UNCHANGED runVars

\* Whether forward applies the batch norm to a tensor of n rows.
AppliesBatchNormAlways(disable, n) == n > 1
AppliesBatchNorm(disable, n) == ~disable /\ n > 1

\* The argument tuples a call may be given: any batch on the instance's first
\* call, the same arguments again on a later one.
ArgsOfCall == IF calls = 0 THEN CallArgs ELSE {inp}

\* forward, from its entry to the start of the propagation loop.
ForwardCall ==
    /\ pc \in {"idle", "returned", "raised"}
    /\ calls < MaxCalls
    /\ calls' = calls + 1
    /\ \E a \in ArgsOfCall :
          LET dropped == Dropout(a.propagatedNodeInfoByNdfo, cfg.input_dropout_p, training, rng)
              bn == AppliesBatchNorm(cfg.disable_batch_norm, Rows(dropped))
          IN  /\ inp' = a
              /\ prevOut' = IF pc = "returned" /\ a = inp THEN node ELSE EmptyTensor
              /\ i' = 0
              /\ roundIn' = EmptyTensor
              /\ step' = NoStep
              /\ IF ~a.dataDebugHook
                 THEN /\ pc' = "raised" /\ err' = "TypeError"
                      /\ node' = a.propagatedNodeInfoByNdfo
                      /\ UNCHANGED <<bnTracked, rng>>
                 ELSE IF bn /\ dropped.w # cfg.propagated_info_len
                 THEN /\ pc' = "raised" /\ err' = "RuntimeError"
                      /\ node' = dropped
                      /\ rng' = RngAfterDropout(cfg.input_dropout_p, training, rng)
                      /\ UNCHANGED bnTracked
                 ELSE /\ pc' = "loop" /\ err' = "none"
                      /\ rng' = RngAfterDropout(cfg.input_dropout_p, training, rng)
                      /\ node' = IF bn THEN BatchNorm(dropped, training, bnTracked)
                                 ELSE dropped
                      /\ bnTracked' = IF bn /\ training THEN bnTracked + 1 ELSE bnTracked
    /\ UNCHANGED <<cfg, training>>
    /\ UNCHANGED runVars

\* "for i in range(depth)": after k iterations there is another one.
LoopContinuesOnceMore(k, depth) == k <= depth
LoopContinues(k, depth) == k < depth

\* One iteration of "for i in range(self.node_info_propagator_stack_depth)".
PropagationRound ==
    /\ pc = "loop"
    /\ LoopContinues(i, cfg.node_info_propagator_stack_depth)
    /\ LET R == Round(cfg, inp, node)
       IN  /\ roundIn' = node
           /\ step' = R.step
           /\ IF R.err # "none"
              THEN /\ pc' = "raised" /\ err' = R.err
                   /\ UNCHANGED <<node, i, rng>>
              ELSE /\ node' = Dropout(R.step.out, cfg.dropout_p, training, rng)
                   /\ rng' = RngAfterDropout(cfg.dropout_p, training, rng)
                   /\ i' = i + 1
                   /\ UNCHANGED <<pc, err>>
    /\ UNCHANGED <<cfg, training, bnTracked, calls, inp, prevOut>>
    /\ UNCHANGED runVars

\* "return propagatedNodeInfoByNdfo" once range(stack_depth) is exhausted.
ForwardReturn ==
    /\ pc = "loop"
    /\ ~LoopContinues(i, cfg.node_info_propagator_stack_depth)
    /\ pc' = "returned"
    /\ UNCHANGED <<cfg, training, bnTracked, calls, inp, node, i, err, roundIn, step,
                   prevOut, rng>>
    /\ UNCHANGED runVars

Next == Construct \/ Eval \/ ForwardCall \/ PropagationRound \/ ForwardReturn

Spec == Init /\ [][Next]_vars

\* ------------------------------------------------------------- apps/config.py: run folders
\* A run folder "run.<digits>.<suffix>/" is named by the digits of its index
\* field and by the components of its suffix (the text between the dots).
\* folders holds every directory under runFolders/ with whether os.listdir
\* finds anything in it.
Suffixes == {<<"toy1_1">>, <<"x", "toy1_1">>}
\* The runIndex argument: -1 stands for None.
RunIndexArgs == {-1} \cup 0..MaxRunIndex

RECURSIVE DecimalDigits(_)
DecimalDigits(n) == IF n < 10 THEN <<n>> ELSE Append(DecimalDigits(n \div 10), n % 10)
\* "{1:0>5}".format(runIndex): padded with zeros on the left to five characters.
ZeroPad5(n) == [j \in 1..(5 - Len(DecimalDigits(n))) |-> 0] \o DecimalDigits(n)
RECURSIVE ParseInt(_)
ParseInt(d) ==
    IF Len(d) = 0 THEN 0 ELSE 10 * ParseInt(SubSeq(d, 1, Len(d) - 1)) + d[Len(d)]
\* "{0}run.{1:0>5}.{2}/".format(allRunsFolder, runIndex, suffix)
RunFolderName(runIndex, suffix) == [digits |-> ZeroPad5(runIndex), sfx |-> suffix]
\* int(os.path.basename(runFolder)[4:9])
RunIndexOf(name) == ParseInt(SubSeq(name.digits, 1, 5))
\* glob "run." + "[0-9]"*5 + ".*"
GlobMatches(name) == Len(name.digits) = 5
\* runFolder.endswith(".{0}/".format(suffix))
EndsWithSuffix(name, suffix) ==
    /\ Len(suffix) <= Len(name.sfx)
    /\ SubSeq(name.sfx, Len(name.sfx) - Len(suffix) + 1, Len(name.sfx)) = suffix

\* existingRunFolders: the names the glob matches whose directory is not empty.
ExistingRunFolders(fs) == {f.name : f \in {g \in fs : GlobMatches(g.name) /\ g.nonEmpty}}
\* runIndexToFolderMap: one folder per run index; of several folders with the
\* same index the one glob lists last stays, and glob's order is the file
\* system's.
IndexMaps(existing) ==
    {m \in [{RunIndexOf(e) : e \in existing} -> existing] :
        \A k \in DOMAIN m : RunIndexOf(m[k]) = k}

\* max(...)
OldestOf(S) == CHOOSE k \in S : \A x \in S : x >= k
LatestOf(S) == CHOOSE k \in S : \A x \in S : x <= k

RunFolderReturned(name, runIndex, resumed) ==
    [kind |-> "ok", runFolder |-> name, runIndex |-> runIndex, resume |-> resumed]
RunFolderRaised(e) ==
    [kind |-> e, runFolder |-> RunFolderName(0, <<>>), runIndex |-> -1, resume |-> FALSE]

\* getRunFolder, given the runIndexToFolderMap m it built: what it returns (the
\* third component FALSE exactly when it made the directory) or raises.
GetRunFolderResult(m, runIndexArg, resume, create, suffix) ==
    LET compatibleRunIndices == {k \in DOMAIN m : EndsWithSuffix(m[k], suffix)}
        runIndex ==
            IF runIndexArg # -1 THEN runIndexArg
            ELSE IF resume
                 THEN IF compatibleRunIndices # {} THEN LatestOf(compatibleRunIndices)
                      ELSE -1
            ELSE IF DOMAIN m # {} THEN LatestOf(DOMAIN m) + 1
            ELSE 0
    IN  IF runIndex # -1
        THEN IF runIndex \notin DOMAIN m
             THEN IF create
                  THEN RunFolderReturned(RunFolderName(runIndex, suffix), runIndex, FALSE)
                  ELSE RunFolderRaised("FileNotFoundError")
             ELSE IF runIndex \in compatibleRunIndices
                  THEN RunFolderReturned(m[runIndex], runIndex, TRUE)
                  ELSE RunFolderRaised("ValueError")
        ELSE IF create
             THEN LET next == IF DOMAIN m # {} THEN LatestOf(DOMAIN m) + 1 ELSE 0
                  IN RunFolderReturned(RunFolderName(next, suffix), next, FALSE)
             ELSE RunFolderRaised("FileNotFoundError")

\* os.makedirs(path, exist_ok=True)
MakeDirs(fs, name) ==
    IF \E f \in fs : f.name = name THEN fs
    ELSE fs \cup {[name |-> name, nonEmpty |-> FALSE]}

\* getRunFolder(dataFolderPath, allRunsFolder, runIndex, resume, create, suffix),
\* called once by an application process as it loads its configuration.
GetRunFolder ==
    /\ rf.kind = "none"
    /\ \E runIndexArg \in RunIndexArgs, resume \in BOOLEAN, create \in BOOLEAN,
          suffix \in Suffixes :
       \E m \in IndexMaps(ExistingRunFolders(folders)) :
          LET res == GetRunFolderResult(m, runIndexArg, resume, create, suffix)
          IN  /\ res.runIndex <= MaxRunIndex
              /\ folders' = IF res.kind = "ok" /\ ~res.resume
                            THEN MakeDirs(folders, res.runFolder)
                            ELSE folders
              /\ rf' = [kind |-> res.kind, runFolder |-> res.runFolder,
                        runIndex |-> res.runIndex, resume |-> res.resume,
                        argRunIndex |-> runIndexArg, argResume |-> resume,
                        argCreate |-> create, argSuffix |-> suffix,
                        before |-> folders]
    /\ UNCHANGED cfgVars
    /\ UNCHANGED propVars

\* A run has written into its run folder (checkpoints, logs): os.listdir then
\* finds it non-empty.
PopulateRunFolder ==
    /\ rf.kind = "none"
    /\ \E f \in folders :
          /\ ~f.nonEmpty
          /\ folders' = (folders \ {f}) \cup {[f EXCEPT !.nonEmpty = TRUE]}
    /\ UNCHANGED rf
    /\ UNCHANGED cfgVars
    /\ UNCHANGED propVars

\* The application process ends, normally or with the exception getRunFolder
\* raised; what getRunFolder returned to it is gone.
ProcessExit ==
    /\ rf.kind # "none"
    /\ rf' = [kind |-> "none"]
    /\ UNCHANGED folders
    /\ UNCHANGED cfgVars
    /\ UNCHANGED propVars

NextRun == GetRunFolder \/ PopulateRunFolder \/ ProcessExit

SpecRun == Init /\ [][NextRun]_vars

\* ------------------------------------------------------------- apps/config.py: checkpoints
\* A checkpoint folder "Chk<a>.<b>/" inside a run folder is named by the digits
\* of a and of b; vocab tells whether it holds output_vocab.pt. The epochs and
\* steps of the folders present lie around a change in the number of digits.
CheckpointEpochs == {9, 10}
CheckpointSteps == {0}

\* checkpointFolder: the name of a checkpoint folder, or None.
CheckpointName(c) == [epoch |-> c.epoch, step |-> c.step]
None == [epoch |-> <<>>, step |-> <<>>]

\* The characters of "Chk<a>.<b>/output_vocab.pt" from the first digit of a to
\* the "/" (what precedes and follows is the same in every path of one run
\* folder), as code points: "." is 46, "/" is 47, the digit d is 48 + d.
PathTail(c) ==
    [j \in 1..Len(c.epoch) |-> 48 + c.epoch[j]] \o <<46>>
        \o [j \in 1..Len(c.step) |-> 48 + c.step[j]] \o <<47>>

\* a < b for two Python strings: by the first differing character, a proper
\* prefix being the smaller.
RECURSIVE StrLess(_, _)
StrLess(a, b) ==
    IF Len(a) = 0 THEN Len(b) > 0
    ELSE IF Len(b) = 0 THEN FALSE
    ELSE IF a[1] # b[1] THEN a[1] < b[1]
    ELSE StrLess(Tail(a), Tail(b))

\* max(existingCheckpoints), a maximum of path strings.
MaxPath(cs) == CHOOSE c \in cs : \A d \in cs : d = c \/ StrLess(PathTail(d), PathTail(c))

\* glob(dataFolderPath + runFolder + "Chk*/output_vocab.pt")
ExistingCheckpoints(cs, runFolder) ==
    {CheckpointName(c) : c \in {d \in cs : d.run = runFolder /\ d.vocab}}

\* getLatestCheckpoint(dataFolderPath, runFolder)
GetLatestCheckpoint(cs, runFolder) ==
    LET existingCheckpoints == ExistingCheckpoints(cs, runFolder)
    IN  IF existingCheckpoints # {}
        THEN LET checkpointFolder == MaxPath(existingCheckpoints)
             IN [checkpointEpoch |-> ParseInt(checkpointFolder.epoch),
                 checkpointStep |-> ParseInt(checkpointFolder.step),
                 checkpointFolder |-> checkpointFolder]
        ELSE [checkpointEpoch |-> -1, checkpointStep |-> -1, checkpointFolder |-> None]

\* ------------------------------------------------------------- apps/config.py: loadConfig
AppModes == {"Generate", "Train", "Evaluate"}
\* --resume, parsed by str2bool3: absent (None), true or false.
ResumeArgs == {"None", "True", "False"}
\* --run: absent (None, written -1) or a run index.
RunArgs == {-1} \cup 0..MaxRun

\* "By default, we are willing to create in training mode. OW, not." and
\* "Explicit resume requested. Cannot create."
CreateOfIgnoringResume(mode, resumeArg) == mode = "Train"
CreateOf(mode, resumeArg) == IF resumeArg = "True" THEN FALSE ELSE mode = "Train"
ResumeOf(resumeArg) == IF resumeArg = "None" THEN TRUE ELSE resumeArg = "True"

\* "If runFolder exists but checkpoint folder doesn't, we still can't resume."
CanResumeWithoutCheckpoint(resumed, checkpointFolder) == resumed
CanResume(resumed, checkpointFolder) == resumed /\ checkpointFolder # None

\* loadConfig(mode), from the create/resume defaults to its return: the run
\* folder is identified (and made, when getRunFolder creates it), then its
\* latest checkpoint.
LoadConfig ==
    /\ app.kind = "none"
    /\ \E mode \in AppModes, run \in RunArgs, resumeArg \in ResumeArgs,
          suffix \in Suffixes :
       \E m \in IndexMaps(ExistingRunFolders(folders)) :
          LET create == CreateOf(mode, resumeArg)
              res == GetRunFolderResult(m, run, ResumeOf(resumeArg), create, suffix)
              chk == GetLatestCheckpoint(chks, res.runFolder)
              after == IF res.kind = "ok" /\ ~res.resume
                       THEN MakeDirs(folders, res.runFolder)
                       ELSE folders
          IN  /\ res.runIndex <= MaxRun
              /\ folders' = after
              /\ app' = [kind |-> res.kind, mode |-> mode, argRun |-> run,
                         argResume |-> resumeArg, argSuffix |-> suffix,
                         create |-> create, runFolder |-> res.runFolder,
                         run |-> res.runIndex, found |-> res.resume,
                         resume |-> CanResume(res.resume, chk.checkpointFolder),
                         checkpointEpoch |-> chk.checkpointEpoch,
                         checkpointStep |-> chk.checkpointStep,
                         checkpointFolder |-> chk.checkpointFolder,
                         before |-> folders]
    /\ UNCHANGED <<rf, chks>>
    /\ UNCHANGED propVars

\* The application that loaded its configuration saves into its run folder a
\* checkpoint folder, with or without the output vocabulary in it, and ends; the
\* run folder is not empty from then on.
WriteCheckpoint ==
    /\ app.kind = "ok"
    /\ Cardinality(chks) < MaxCheckpoints
    /\ \E e \in CheckpointEpochs, st \in CheckpointSteps, v \in BOOLEAN :
          /\ ~\E c \in chks : /\ c.run = app.runFolder
                              /\ c.epoch = DecimalDigits(e)
                              /\ c.step = DecimalDigits(st)
          /\ chks' = chks \cup {[run |-> app.runFolder, epoch |-> DecimalDigits(e),
                                 step |-> DecimalDigits(st), vocab |-> v]}
          /\ folders' = {IF f.name = app.runFolder THEN [f EXCEPT !.nonEmpty = TRUE] ELSE f
                         : f \in folders}
    /\ app' = [kind |-> "none"]
    /\ UNCHANGED rf
    /\ UNCHANGED propVars

\* The application ends, normally or with the exception loadConfig raised.
AppExit ==
    /\ app.kind # "none"
    /\ app' = [kind |-> "none"]
    /\ UNCHANGED <<folders, rf, chks>>
    /\ UNCHANGED propVars

NextCfg == LoadConfig \/ WriteCheckpoint \/ AppExit

SpecCfg == Init /\ [][NextCfg]_vars

\* ------------------------------------------------------------- properties of forward
Features == inp.propagatedNodeInfoByNdfo
Depth == cfg.node_info_propagator_stack_depth
\* A round of the current call has completed, and step holds its tensors.
RoundDone == pc \in {"loop", "returned"} /\ i >= 1
\* The current call attempted a round (it completed or raised).
RoundTried == pc \in {"loop", "returned", "raised"} /\ Rows(roundIn) > 0
NoDropout == cfg.input_dropout_p = 0 /\ cfg.dropout_p = 0

\* What the parent merge makes of row j of tensor t: the parent cell fed with the
\* transformed row of j's parent and with row j itself.
ParentMergeOf(t, j) ==
    T("overlayParentInfo", 0,
      <<T("transformParentInfo", 0, <<RowAt(t, inp.parentSelectorByNdfo[j])>>), t.r[j]>>)

\* C1: the node tensor has the input's shape (row count and width) when the
\* loop starts, after every round, and when forward returns.
C1_ShapeInvariance ==
    pc \in {"loop", "returned"} =>
        /\ Rows(node) = Rows(Features)
        /\ node.w = Features.w
        /\ (i >= 1 => Rows(step.out) = Rows(Features) /\ step.out.w = Features.w)

\* C1 witness: a call of two rounds on a batch of at least three nodes, some
\* with children and some without, has returned.
C1_Witness ==
    /\ pc = "returned"
    /\ i >= 2
    /\ Rows(node) >= 3
    /\ step.childrenMerged
    /\ step.deficitStart < Rows(node)

NonIncreasingLengths(list) ==
    \A k \in 1..(Len(list) - 1) : Len(list[k]) >= Len(list[k + 1])
NonDecreasingLengths(list) ==
    \A k \in 1..(Len(list) - 1) : Len(list[k]) <= Len(list[k + 1])

ValidUpToNormalisation ==
    /\ inp.dataDebugHook
    /\ Features.w = cfg.propagated_info_len
    /\ Len(inp.parentSelectorByNdfo) = Rows(Features)
    /\ \A j \in 1..Len(inp.parentSelectorByNdfo) :
          inp.parentSelectorByNdfo[j] \in 0..(Rows(Features) - 1)
    /\ \A k \in 1..Len(inp.childSelectorByNdfoList) :
          /\ Len(inp.childSelectorByNdfoList[k]) \in 1..Rows(Features)
          /\ \A j \in 1..Len(inp.childSelectorByNdfoList[k]) :
                inp.childSelectorByNdfoList[k][j] \in 0..(Rows(Features) - 1)
    /\ NonDecreasingLengths(inp.childSelectorByNdfoList)
    /\ Len(inp.decreasingFanoutsFactor) = Rows(Features)

\* C4: with one fanout entry per node and M accumulated rows, 1 <= M <= N, the
\* normalisation does not fail, yields M rows, and row j is row j of the
\* accumulator divided by fanout entry j.
C4_NormalisesExactlyTheParents ==
    RoundTried /\ ValidUpToNormalisation /\ Len(inp.childSelectorByNdfoList) > 0 =>
        /\ pc # "raised"
        /\ Rows(step.childrenInfo) = Rows(step.rawChildrenInfo)
        /\ \A j \in 1..Rows(step.childrenInfo) :
              step.childrenInfo.r[j] =
                  T("div", inp.decreasingFanoutsFactor[j], <<step.rawChildrenInfo.r[j]>>)

\* C5 as stated: with stack depth 0 and both dropout rates 0, forward returns
\* its input, whatever the row count and disable_batch_norm.
C5_DepthZeroReturnsInput ==
    pc = "returned" /\ Depth = 0 /\ NoDropout => node = Features

\* C5 as amended: with stack depth 0 and both dropout rates 0, forward returns
\* its input when disable_batch_norm is set or the input has a single row, and
\* a different (batch-normalised) tensor otherwise.
C5_DepthZeroReturnsInputUnlessNormalised ==
    pc = "returned" /\ Depth = 0 /\ NoDropout =>
        IF cfg.disable_batch_norm \/ Rows(Features) = 1
        THEN node = Features
        ELSE /\ node # Features
             /\ \A j \in 1..Rows(node) :
                   /\ node.r[j].op \in {"batchNormTrain", "batchNormEval"}
                   /\ node.r[j].args[1] = Features.r[j]

\* C5 witness: a depth-0 call without dropout and without batch norm has
\* returned its input of several rows.
C5_Witness ==
    /\ pc = "returned"
    /\ Depth = 0
    /\ NoDropout
    /\ cfg.disable_batch_norm
    /\ Rows(Features) > 1
    /\ node = Features

\* The batch is a single one-node tree, passed with a debug hook.
SingleNodeBatch ==
    /\ pc \in {"loop", "returned", "raised"}
    /\ inp.dataDebugHook
    /\ Features = Tn(cfg.propagated_info_len, <<Leaf(1)>>)
    /\ inp.parentSelectorByNdfo = <<0>>
    /\ inp.childSelectorByNdfoList = <<>>

\* C6: on a single one-node tree forward does not raise, whatever the stack
\* depth; each round runs neither the fanout division nor the children merge
\* and leaves the row as the parent merge of the row with itself (the output
\* dropout, when its rate is not 0, then masks it); forward returns after
\* max(depth, 0) rounds.
C6_SingleNodeOnlyParentMerge ==
    SingleNodeBatch =>
        /\ pc # "raised"
        /\ (pc = "returned" => i = Max(Depth, 0))
        /\ (i >= 1 =>
              /\ ~step.divided
              /\ ~step.childrenMerged
              /\ step.out.r =
                    <<T("overlayParentInfo", 0,
                        <<T("transformParentInfo", 0, <<roundIn.r[1]>>), roundIn.r[1]>>)>>
              /\ (cfg.dropout_p = 0 => node = step.out))

\* C6 witness: two rounds on the single one-node tree have returned.
C6_Witness ==
    /\ SingleNodeBatch
    /\ pc = "returned"
    /\ i = 2
    /\ node.r[1].op = "overlayParentInfo"

\* A rank outside the tensor's row range in a selector, or a child selector
\* longer than the node tensor.
Malformed ==
    \/ \E j \in 1..Len(inp.parentSelectorByNdfo) :
          inp.parentSelectorByNdfo[j] \notin 0..(Rows(Features) - 1)
    \/ \E k \in 1..Len(inp.childSelectorByNdfoList) :
          \/ Len(inp.childSelectorByNdfoList[k]) > Rows(Features)
          \/ \E j \in 1..Len(inp.childSelectorByNdfoList[k]) :
                inp.childSelectorByNdfoList[k][j] \notin 0..(Rows(Features) - 1)

\* C7: a call whose selectors hold a rank outside the row range, or whose
\* children info is longer than the node tensor, returns no tensor: it ends by
\* raising (ShapeError, in the claim's words). Stated for the calls that run
\* at least one round, where the selectors are used.
C7_MalformedNeverReturns ==
    inp.dataDebugHook /\ Malformed /\ Depth >= 1 => pc # "returned"

\* C8: a negative stack depth or a negative propagated_info_len makes the
\* constructor fail with ConfigError, so no instance with a negative depth
\* exists.
C8_NegativeHyperparameterRejected ==
    pc # "new" /\ (Depth < 0 \/ cfg.propagated_info_len < 0) =>
        pc = "ctorRaised" /\ err = "ConfigError"

\* C9: with both dropout rates 0 and batch norm disabled, a call given the same
\* arguments as the previous call on the instance returns the same tensor.
C9_SameArgumentsSameResult ==
    pc = "returned" /\ Rows(prevOut) > 0 /\ NoDropout /\ cfg.disable_batch_norm =>
        node = prevOut

\* C9 witness: a second call of two rounds, on a batch with children, has
\* returned what the first call with the same arguments returned.
C9_Witness ==
    /\ pc = "returned"
    /\ calls = 2
    /\ Rows(prevOut) > 1
    /\ NoDropout
    /\ cfg.disable_batch_norm
    /\ i = 2
    /\ step.childrenMerged
    /\ node = prevOut

\* ------------------------------------------------------------- properties of getRunFolder
\* The non-empty run folders the last call found, and their indices.
FoundBefore == ExistingRunFolders(rf.before)
IndicesBefore == {RunIndexOf(e) : e \in FoundBefore}
\* The folders it found that match the call's suffix and share their index with
\* no other folder it found.
CompatibleBefore ==
    {e \in FoundBefore :
        /\ EndsWithSuffix(e, rf.argSuffix)
        /\ \A o \in FoundBefore : RunIndexOf(o) = RunIndexOf(e) => o = e}
UsableCheckpoints == {c \in chks : c.run = app.runFolder /\ c.vocab}
\* (a, b) <= (a2, b2) for pairs of integers.
PairLeq(a, b, a2, b2) == a < a2 \/ (a = a2 /\ b <= b2)

\* C11: getLatestCheckpoint returns, among the Chk<a>.<b> folders of the run
\* folder that contain output_vocab.pt, the one whose numeric pair (a, b) is
\* greatest, with that pair as integers, and (-1, -1, None) exactly when there
\* is no such folder.
C11_ReturnsNumericallyLatestCheckpoint ==
    app.kind = "ok" =>
        IF UsableCheckpoints = {}
        THEN /\ app.checkpointFolder = None
             /\ app.checkpointEpoch = -1
             /\ app.checkpointStep = -1
        ELSE /\ \E c \in UsableCheckpoints : app.checkpointFolder = CheckpointName(c)
             /\ app.checkpointEpoch = ParseInt(app.checkpointFolder.epoch)
             /\ app.checkpointStep = ParseInt(app.checkpointFolder.step)
             /\ \A c \in UsableCheckpoints :
                   PairLeq(ParseInt(c.epoch), ParseInt(c.step),
                           app.checkpointEpoch, app.checkpointStep)

\* ------------------------------------------------------------- properties of the children accumulation
\* The arguments describe a batch of trees in NDFO order: the parent selector
\* is a forest, and features, child selectors (in an order the loop accepts or
\* not) and fanout factor are the ones of that forest.
WellFormedArgs ==
    LET p == inp.parentSelectorByNdfo
    IN  /\ Len(p) >= 1
        /\ \A j \in 1..Len(p) : p[j] \in 0..(Len(p) - 1)
        /\ IsNdfoForest(p)
        /\ \E o \in ListOrders, sh \in FanoutShapes : inp = MakeArgs(p, o, sh, "none")

\* The terms a row of the accumulator sums, zero padding left out.
RECURSIVE Summands(_)
Summands(t) ==
    IF t.op = "add" THEN Summands(t.args[1]) \o Summands(t.args[2])
    ELSE IF t = ZeroRow THEN <<>>
    ELSE <<t>>

\* The children transform applied to the vector node c had when the round began.
ChildContribution(c) == T("transformChildrenInfo", 0, <<roundIn.r[c + 1]>>)

\* C12: after the accumulation loop of a completed round on a batch of trees,
\* the accumulator has one row per node that has children, and row j sums, once
\* each, the transformed start-of-round vectors of exactly the children of the
\* node at rank j.
C12_RowSumsOwnChildren ==
    RoundDone /\ WellFormedArgs =>
        LET p == inp.parentSelectorByNdfo
            raw == step.rawChildrenInfo
        IN  /\ Rows(raw) = ParentCount(p)
            /\ \A j \in 1..Rows(raw) :
                  LET terms == Summands(raw.r[j])
                  IN  /\ Len(terms) = FanoutOf(p, j - 1)
                      /\ {terms[k] : k \in 1..Len(terms)} =
                            {ChildContribution(c) : c \in ChildrenOf(p, j - 1)}

\* C12 witness: the second round of a call on a tree has completed in which one
\* node has two children and another node one, whose row was zero-padded.
C12_Witness ==
    /\ RoundDone
    /\ WellFormedArgs
    /\ i = 2
    /\ \E j \in 1..Rows(step.rawChildrenInfo) :
          Len(Summands(step.rawChildrenInfo.r[j])) = 2
    /\ \E j \in 1..Rows(step.rawChildrenInfo) :
          /\ step.rawChildrenInfo.r[j].op = "add"
          /\ step.rawChildrenInfo.r[j].args[1] = ZeroRow

\* ------------------------------------------------------------- properties of the information flow
\* The input rows (initial vectors) a term was computed from.
RECURSIVE LeavesOf(_)
LeavesOf(t) ==
    IF t.op = "x" THEN {t.n}
    ELSE UNION {LeavesOf(t.args[k]) : k \in 1..Len(t.args)}

\* The ranks within d parent/child edges of rank r in the forest p.
RECURSIVE Within(_, _, _)
Within(p, r, d) ==
    IF d <= 0 THEN {r}
    ELSE LET near == Within(p, r, d - 1)
         IN near \cup {p[q + 1] : q \in near} \cup UNION {ChildrenOf(p, q) : q \in near}

\* C13: with batch norm disabled, on a batch of trees, the vector of a node
\* after d rounds was computed only from the initial vectors of the nodes within
\* d parent/child edges of it, so no vector further away (or of another tree)
\* can change it.
C13_OneHopPerRound ==
    pc \in {"loop", "returned"} /\ cfg.disable_batch_norm /\ WellFormedArgs =>
        \A j \in 1..Rows(node) :
            LeavesOf(node.r[j]) \subseteq
                {q + 1 : q \in Within(inp.parentSelectorByNdfo, j - 1, i)}

\* The same for the batches whose fanout factor has one entry per node that has
\* children.
OneHopPerRoundParentsOnly ==
    Len(inp.decreasingFanoutsFactor) = ParentCount(inp.parentSelectorByNdfo) =>
        C13_OneHopPerRound

\* ------------------------------------------------------------- properties of the loop structure
Overlays == {"overlayParentInfo", "overlayChildrenInfo"}
\* The vector a round's output row was made from, i.e. the hidden state of its
\* parent merge; and the number of rounds a row has been through.
RECURSIVE RoundsIn(_)
RoundsIn(t) ==
    IF t.op = "dropout" /\ t.args[1].op \in Overlays THEN RoundsIn(t.args[1])
    ELSE IF t.op = "overlayChildrenInfo" THEN RoundsIn(t.args[2])
    ELSE IF t.op = "overlayParentInfo" THEN 1 + RoundsIn(t.args[2])
    ELSE 0
\* The row as it entered the first round.
RECURSIVE BeforeRounds(_)
BeforeRounds(t) ==
    IF t.op = "dropout" /\ t.args[1].op \in Overlays THEN BeforeRounds(t.args[1])
    ELSE IF t.op \in Overlays THEN BeforeRounds(t.args[2])
    ELSE t
\* The operations applied to an input row before the first round, outermost
\* first.
RECURSIVE StageOps(_)
StageOps(t) == IF t.op = "x" THEN <<>> ELSE <<t.op>> \o StageOps(t.args[1])

RowsOf(t) == {t.r[j] : j \in 1..Rows(t)}

\* C14: a call that returns has run exactly stack-depth rounds (for a stack
\* depth that is a number of rounds, i.e. not negative); every row of the node
\* tensor has been through as many parent merges as rounds have run, each round
\* starting from the previous round's output; in a round the parent info and
\* every summand of the children info are gathered from the vectors the round
\* began with; and under the rounds each row carries at most one input dropout
\* and, outside it, one batch norm, present exactly when forward applies it.
C14_RoundsAndStages ==
    /\ (pc = "returned" /\ Depth >= 0 => i = Depth)
    /\ (pc \in {"loop", "returned"} =>
          \A j \in 1..Rows(node) :
             LET ops == StageOps(BeforeRounds(node.r[j]))
                 bn == AppliesBatchNorm(cfg.disable_batch_norm, Rows(Features))
             IN  /\ RoundsIn(node.r[j]) = i
                 /\ BeforeRounds(node.r[j]).op \in
                       {"x", "dropout", "batchNormTrain", "batchNormEval"}
                 /\ ops \in {<<>>, <<"dropout">>, <<"batchNormTrain">>, <<"batchNormEval">>,
                             <<"batchNormTrain", "dropout">>, <<"batchNormEval", "dropout">>}
                 /\ (bn <=> Len(ops) > 0 /\ ops[1] # "dropout")
                 /\ (Len(ops) > 0 /\ ops[Len(ops)] = "dropout" => cfg.input_dropout_p > 0)
                 /\ (cfg.input_dropout_p > 0 /\ training =>
                        Len(ops) > 0 /\ ops[Len(ops)] = "dropout"))
    /\ (RoundDone =>
          /\ \A j \in 1..Rows(roundIn) : RoundsIn(roundIn.r[j]) = i - 1
          /\ Rows(step.parentMerged) = Rows(roundIn)
          /\ \A j \in 1..Rows(roundIn) : step.parentMerged.r[j] = ParentMergeOf(roundIn, j)
          /\ \A j \in 1..Rows(step.rawChildrenInfo) :
                LET terms == Summands(step.rawChildrenInfo.r[j])
                IN \A k \in 1..Len(terms) :
                      /\ terms[k].op = "transformChildrenInfo"
                      /\ terms[k].args[1] \in RowsOf(roundIn)
          /\ \A j \in 1..Rows(node) :
                node.r[j] = step.out.r[j]
                \/ (cfg.dropout_p > 0 /\ node.r[j].op = "dropout"
                    /\ node.r[j].args[1] = step.out.r[j]))

\* C14 witness: a call with input dropout and batch norm has returned after two
\* rounds on a batch in which children info was accumulated.
C14_Witness ==
    /\ pc = "returned"
    /\ Depth = 2
    /\ i = 2
    /\ Rows(step.rawChildrenInfo) > 0
    /\ StageOps(BeforeRounds(node.r[1])) = <<"batchNormTrain", "dropout">>

\* ------------------------------------------------------------- properties of the run folders
\* C15: whatever getRunFolder calls were made and whichever folders were
\* populated in between, no two run folders carry the same five-digit run index.
C15_RunIndicesUnique ==
    \A f \in folders, g \in folders :
        GlobMatches(f.name) /\ GlobMatches(g.name)
        /\ RunIndexOf(f.name) = RunIndexOf(g.name) => f.name = g.name

\* ------------------------------------------------------------- properties of loadConfig
\* The non-empty run folders loadConfig found, and the ones among them that a
\* call with these arguments can use.
AppFoundBefore == ExistingRunFolders(app.before)
UsableBefore ==
    {e \in AppFoundBefore : /\ EndsWithSuffix(e, app.argSuffix)
                            /\ (app.argRun = -1 \/ RunIndexOf(e) = app.argRun)}

\* C16: when loadConfig returns with resume True, the run folder existed before
\* the call, non-empty, its name ending with the suffix, and holds a checkpoint
\* with output_vocab.pt (checkpointFolder is not None); when the run folder was
\* not such a folder before the call (the call made it), resume is False and
\* checkpointEpoch = checkpointStep = -1.
C16_ResumeOnlyFromCheckpoint ==
    app.kind = "ok" =>
        /\ (app.resume =>
              /\ app.runFolder \in AppFoundBefore
              /\ EndsWithSuffix(app.runFolder, app.argSuffix)
              /\ app.checkpointFolder # None
              /\ \E c \in UsableCheckpoints : CheckpointName(c) = app.checkpointFolder)
        /\ (app.runFolder \notin AppFoundBefore =>
              /\ ~app.resume
              /\ app.checkpointEpoch = -1
              /\ app.checkpointStep = -1
              /\ app.checkpointFolder = None)

\* C16 witness: one call made its run folder and returned resume False, and a
\* later call found a non-empty run folder without a usable checkpoint next to
\* one it could have resumed.
C16_Witness ==
    /\ app.kind = "ok"
    /\ app.found
    /\ ~app.resume
    /\ app.checkpointFolder = None
    /\ \E c \in chks : c.run = app.runFolder /\ ~c.vocab
    /\ \E c \in chks : c.run # app.runFolder /\ c.vocab

\* C17: when loadConfig runs in a mode other than Train, or with --resume true,
\* getRunFolder is called with create False and makes no directory: the run
\* folders are the ones before the call; it returns a non-empty folder that
\* existed, and when there is no usable one it raises FileNotFoundError, or
\* ValueError when a non-empty folder has the requested index but not the suffix.
C17_CreatesOnlyInTrainWithoutResume ==
    app.kind # "none" /\ (app.mode # "Train" \/ app.argResume = "True") =>
        /\ ~app.create
        /\ folders = app.before
        /\ app.kind \in {"ok", "FileNotFoundError", "ValueError"}
        /\ (app.kind = "ok" => app.runFolder \in UsableBefore)
        /\ (UsableBefore = {} => app.kind \in {"FileNotFoundError", "ValueError"})
        /\ (app.kind = "ValueError" =>
              /\ app.argRun # -1
              /\ \E e \in AppFoundBefore :
                    RunIndexOf(e) = app.argRun /\ ~EndsWithSuffix(e, app.argSuffix))

\* C17 witness: a Train call with --resume true asked for the index of a
\* non-empty run folder of another suffix and got ValueError.
C17_Witness ==
    /\ app.kind = "ValueError"
    /\ app.mode = "Train"
    /\ app.argResume = "True"
    /\ folders = app.before
    /\ folders # {}

====
